---- MODULE Spec2Model ----
(***************************************************************************)
(* Model of src/script.py: PowerPointGenerator, the canvas-to-slides       *)
(* converter.  A generator object converts HTML node trees into slide      *)
(* decks: title extraction, the main segmentation pass, saving the deck    *)
(* and the speaker-notes sidecar file.                                     *)
(*                                                                         *)
(* Text is a sequence of one-character strings, so that the regular        *)
(* expressions and the slicing of the source are computed, not assumed.    *)
(***************************************************************************)
EXTENDS Integers, Sequences, FiniteSets, TLC

\* ------------------------------------------------------------------ text

Uppers == <<"A","B","C","D","E","F","G","H","I","J","K","L","M",
            "N","O","P","Q","R","S","T","U","V","W","X","Y","Z">>

Lowers == <<"a","b","c","d","e","f","g","h","i","j","k","l","m",
            "n","o","p","q","r","s","t","u","v","w","x","y","z">>

\* re.IGNORECASE on ASCII letters
Lower(c) ==
  IF \E i \in 1..26 : Uppers[i] = c
  THEN Lowers[CHOOSE i \in 1..26 : Uppers[i] = c]
  ELSE c

\* \s of the regular expressions, and the characters str.strip() removes
IsSpace(c) == c \in {" ", "\t", "\n", "\r"}

\* \d of the regular expressions
IsDigit(c) == c \in {"0","1","2","3","4","5","6","7","8","9"}

\* s[:n]
Take(s, n) == SubSeq(s, 1, IF Len(s) < n THEN Len(s) ELSE n)

\* s[i-1:] (i is 1-based)
Drop(s, i) == SubSeq(s, i, Len(s))

\* str.strip()
Strip(s) ==
  IF \A k \in 1..Len(s) : IsSpace(s[k]) THEN <<>>
  ELSE LET a == CHOOSE i \in 1..Len(s) :
                  ~IsSpace(s[i]) /\ \A k \in 1..(i-1) : IsSpace(s[k])
           b == CHOOSE j \in 1..Len(s) :
                  ~IsSpace(s[j]) /\ \A k \in (j+1)..Len(s) : IsSpace(s[k])
       IN SubSeq(s, a, b)

\* the greedy \s* from position i: the first position at or after i that
\* holds no whitespace (Len(s)+1 when the text ends)
SkipSpace(s, i) ==
  CHOOSE j \in i..(Len(s)+1) :
    /\ \A k \in i..(j-1) : IsSpace(s[k])
    /\ (j = Len(s)+1 \/ ~IsSpace(s[j]))

\* the greedy \d* from position i
SkipDigits(s, i) ==
  CHOOSE j \in i..(Len(s)+1) :
    /\ \A k \in i..(j-1) : IsDigit(s[k])
    /\ (j = Len(s)+1 \/ ~IsDigit(s[j]))

\* a literal of the pattern matches at position i, ignoring case
LitAt(s, i, lit) ==
  /\ i >= 1
  /\ i + Len(lit) - 1 <= Len(s)
  /\ \A k \in 1..Len(lit) : Lower(s[i+k-1]) = lit[k]

LitSlide == <<"s","l","i","d","e">>

LitSubtitle == <<"s","u","b","t","i","t","l","e">>

LitSpeakerNotes == <<"s","p","e","a","k","e","r"," ","n","o","t","e","s">>

\* ':\s*' at position i of s: the position after it, or 0
ColonEnd(s, i) ==
  IF i <= Len(s) /\ s[i] = ":" THEN SkipSpace(s, i + 1) ELSE 0

\* '\d+\s*:\s*' with the digits running from i1 up to i2
NumberColonEnd(s, i1, i2) ==
  IF i2 > i1 THEN ColonEnd(s, SkipSpace(s, i2)) ELSE 0

\* '\d+\s*:\s*' at position i1 of s
DigitsColonEnd(s, i1) == NumberColonEnd(s, i1, SkipDigits(s, i1))

\* r'^slide\s*\d+\s*:\s*' matched at the start of s: the position after
\* the match, or 0 when the pattern does not match
SlidePrefixEnd(s) ==
  IF ~LitAt(s, 1, LitSlide) THEN 0
  ELSE DigitsColonEnd(s, SkipSpace(s, Len(LitSlide) + 1))

\* s without its first e - 1 characters (e = 0: no match, s as it is)
WithoutMatch(s, e) == IF e = 0 THEN s ELSE Drop(s, e)

\* re.sub(r'^slide\s*\d+\s*:\s*', '', s, flags=re.IGNORECASE)
StripSlidePrefix(s) == WithoutMatch(s, SlidePrefixEnd(s))

\* r'^subtitle\s*:\s*' matched at the start of s
SubtitlePrefixEnd(s) ==
  IF ~LitAt(s, 1, LitSubtitle) THEN 0
  ELSE ColonEnd(s, SkipSpace(s, Len(LitSubtitle) + 1))

\* re.sub(r'^subtitle\s*:\s*', '', s, flags=re.IGNORECASE).strip()
CleanSubheading(s) == Strip(WithoutMatch(s, SubtitlePrefixEnd(s)))

\* r"speaker notes\s*:\s*" matches at position i of s
NotesMarkerAt(s, i) ==
  /\ LitAt(s, i, LitSpeakerNotes)
  /\ ColonEnd(s, SkipSpace(s, i + Len(LitSpeakerNotes))) # 0

\* re.search(r"speaker notes\s*:\s*", s, flags=re.IGNORECASE)
HasNotesMarker(s) == \E i \in 1..Len(s) : NotesMarkerAt(s, i)

\* re.split(r"speaker notes\s*:\s*", s, flags=re.IGNORECASE, maxsplit=1):
\* the text before the first match and the text after it
SplitAt(s, i) ==
  [content |-> SubSeq(s, 1, i - 1),
   notes   |-> Drop(s, ColonEnd(s, SkipSpace(s, i + Len(LitSpeakerNotes))))]

SplitNotes(s) ==
  SplitAt(s, CHOOSE i \in 1..Len(s) :
               NotesMarkerAt(s, i) /\ \A k \in 1..(i-1) : ~NotesMarkerAt(s, k))

\* sep.join(parts)
RECURSIVE Join(_, _)
Join(parts, sep) ==
  IF parts = <<>> THEN <<>>
  ELSE IF Len(parts) = 1 THEN parts[1]
  ELSE parts[1] \o sep \o Join(Tail(parts), sep)

\* ------------------------------------------------------------ node trees

(***************************************************************************)
(* A document (content_div) is the sequence of its nodes in document       *)
(* order.  A node has a tag, its own text (the string directly inside it,  *)
(* before its child tags), its classes and the position of its parent      *)
(* (0: a child of content_div itself).  The set dead holds the nodes that  *)
(* Tag.decompose() removed from the tree.                                  *)
(***************************************************************************)
Node(tag, text, cls, parent) ==
  [tag |-> tag, text |-> text, cls |-> cls, parent |-> parent]

\* the ancestors of node i inside content_div
RECURSIVE Ancestors(_, _)
Ancestors(doc, i) ==
  IF doc[i].parent = 0 THEN {}
  ELSE {doc[i].parent} \cup Ancestors(doc, doc[i].parent)

\* node i and everything below it
Subtree(doc, i) == {i} \cup {k \in 1..Len(doc) : i \in Ancestors(doc, k)}

\* Tag.decompose(): the node and its subtree leave the tree
Decompose(doc, dead, i) == dead \cup Subtree(doc, i)

\* the positions in set S, in document order
RECURSIVE InOrder(_, _)
InOrder(S, n) ==
  IF n = 0 THEN <<>>
  ELSE IF n \in S THEN Append(InOrder(S, n - 1), n) ELSE InOrder(S, n - 1)

\* find_all that still lists the nodes decompose() removed
FindAllWithRemoved(doc, dead, tags) ==
  InOrder({k \in 1..Len(doc) : doc[k].tag \in tags}, Len(doc))

\* Tag.find_all(tags, recursive=True) on content_div: document order
FindAll(doc, dead, tags) ==
  InOrder({k \in 1..Len(doc) : k \notin dead /\ doc[k].tag \in tags}, Len(doc))

\* element.find_all(tags) below node i
FindAllUnder(doc, dead, i, tags) ==
  InOrder({k \in Subtree(doc, i) \ {i} : k \notin dead /\ doc[k].tag \in tags},
          Len(doc))

\* element.find_all(tags, recursive=False): direct children only
ChildrenOf(doc, dead, i, tags) ==
  InOrder({k \in 1..Len(doc) :
             k \notin dead /\ doc[k].parent = i /\ doc[k].tag \in tags},
          Len(doc))

\* element.find_parent(tags) / element.find_parents(tags) is not empty
HasParent(doc, i, tags) == \E a \in Ancestors(doc, i) : doc[a].tag \in tags

\* the stripped, non-empty strings of the nodes listed in ks
RECURSIVE StrippedStrings(_, _)
StrippedStrings(doc, ks) ==
  IF ks = <<>> THEN <<>>
  ELSE IF \A c \in 1..Len(doc[Head(ks)].text) : IsSpace(doc[Head(ks)].text[c])
  THEN StrippedStrings(doc, Tail(ks))
  ELSE <<Strip(doc[Head(ks)].text)>> \o StrippedStrings(doc, Tail(ks))

\* element.get_text(sep, strip=True): the strings of the node and of the
\* nodes below it, each stripped, the empty ones dropped, joined by sep
GetTextSep(doc, dead, i, sep) ==
  Join(StrippedStrings(doc, InOrder(Subtree(doc, i) \ dead, Len(doc))), sep)

\* element.get_text(strip=True)
GetText(doc, dead, i) == GetTextSep(doc, dead, i, <<>>)

HeadingTags == {"h1", "h2", "h3", "h4", "h5", "h6"}

\* the tags the title extraction scans (line 193)
TitleTags == {"h1", "h2", "p"}

\* the tags the main pass walks (lines 299-303)
ContentTags == HeadingTags \cup
  {"p", "ul", "ol", "table", "pre", "code", "blockquote", "img", "span", "div"}

\* ---------------------------------------------------------------- slides

(***************************************************************************)
(* A presentation (prs) is the sequence of its slides.  A slide has a      *)
(* layout, a title, a subtitle (title layout), the paragraphs of its body  *)
(* text frame, its table shapes and its notes.  src is the node whose      *)
(* heading opened the slide (0: none); a paragraph's src is the node it    *)
(* was built from (0: the code buffer).                                    *)
(***************************************************************************)

\* Config.max_slide_content_length
MaxSlideContentLength == 1000

\* the title cut of _add_content_slide, clean_title[:100]
MaxTitleLength == 100

\* the cell cut of _add_table_to_slide, cell_text[:200]
MaxCellLength == 200

\* max_level of _process_list_recursive
MaxListLevel == 4

Ellipsis == <<".", ".", ".">>

\* the paragraph text_frame.clear() leaves behind
EmptyPara == [kind |-> "empty", text |-> <<>>, level |-> 0, src |-> 0]

\* the cut without the "..." marker
TruncateTitleNoMarker(clean_title) == Take(clean_title, MaxTitleLength)

\* clean_title[:100] + "..." if len(clean_title) > 100 else clean_title
TruncateTitle(clean_title) ==
  IF Len(clean_title) > MaxTitleLength
  THEN Take(clean_title, MaxTitleLength) \o Ellipsis
  ELSE clean_title

\* the title _add_content_slide gives a slide
SlideTitle(title) == TruncateTitle(StripSlidePrefix(title))

\* _add_content_slide: a new slide at the end of prs; what the caller gets
\* back as content_box is the slide's text frame itself
AddContentSlide(slides, count, title, src) ==
  [slides |-> Append(slides,
                [layout |-> "content", title |-> SlideTitle(title),
                 sub |-> <<>>, paras |-> <<EmptyPara>>, tables |-> <<>>,
                 notes |-> <<>>, src |-> src]),
   cur   |-> Len(slides) + 1,
   box   |-> "frame",
   count |-> count + 1]

\* _ensure_slide: the open slide with its body placeholder as content_box,
\* or a new slide (and then its text frame as content_box)
EnsureSlide(slides, cur, count, default_title) ==
  IF cur = 0
  THEN AddContentSlide(slides, count, default_title, 0)
  ELSE [slides |-> slides, cur |-> cur, box |-> "placeholder", count |-> count]

\* content_box.text_frame: a placeholder has one, a text frame has none
\* (AttributeError)
HasTextFrame(box) == box = "placeholder"

\* para = content_box.text_frame.add_paragraph(); para.text = ...
AddParagraph(slides, cur, para) ==
  [slides EXCEPT ![cur].paras = Append(@, para)]

\* _add_code_content(content_box, code_text).  code is [tag, text]: tag is
\* TRUE when the caller passes the element itself instead of a string, and
\* then code_text.strip() is not callable (TypeError).
AddCodeContent(slides, cur, box, code, src) ==
  IF code.tag THEN [err |-> TRUE, slides |-> slides]
  ELSE IF Strip(code.text) = <<>> THEN [err |-> FALSE, slides |-> slides]
  ELSE IF ~HasTextFrame(box) THEN [err |-> TRUE, slides |-> slides]
  ELSE [err |-> FALSE,
        slides |-> AddParagraph(slides, cur,
                     [kind |-> "code",
                      text |-> Take(code.text, MaxSlideContentLength),
                      level |-> 0, src |-> src])]

\* the tags below li that are its children and no nested lists
ItemChildren(doc, dead, li) ==
  InOrder({k \in 1..Len(doc) :
             /\ k \notin dead
             /\ doc[k].parent = li
             /\ doc[k].tag \notin {"ul", "ol"}}, Len(doc))

\* text_parts of lines 505-510: the item's own string, then the text of
\* each child tag
ItemTextParts(doc, dead, li, kids) ==
  (IF doc[li].text = <<>> THEN <<>> ELSE <<Strip(doc[li].text)>>)
  \o [n \in 1..Len(kids) |-> GetTextSep(doc, dead, kids[n], <<" ">>)]

\* " ".join(text_parts).strip()
ListItemText(doc, dead, li) ==
  Strip(Join(ItemTextParts(doc, dead, li, ItemChildren(doc, dead, li)), <<" ">>))

\* min(level, max_level)
ListLevel(level) == IF level < MaxListLevel THEN level ELSE MaxListLevel

\* the blank-first-paragraph test of lines 499 and 514
OnlyBlankPara(paras) == Len(paras) = 1 /\ Strip(paras[1].text) = <<>>

\* lines 513-519: the paragraph of an item whose text is not empty
WithListItem(paras, text, level, li) ==
  IF text = <<>> THEN paras
  ELSE IF OnlyBlankPara(paras)
  THEN <<[kind |-> "list", text |-> text, level |-> ListLevel(level), src |-> li]>>
  ELSE Append(paras,
         [kind |-> "list", text |-> text, level |-> ListLevel(level), src |-> li])

\* lines 499-501
WithoutBlankPara(paras) == IF OnlyBlankPara(paras) THEN <<>> ELSE paras

\* _process_list_recursive on a text frame's paragraphs: the items of
\* list_element, each followed by the items of its nested lists
RECURSIVE ProcessListRecursive(_, _, _, _, _)
RECURSIVE ProcessListItems(_, _, _, _, _)
RECURSIVE ProcessNestedLists(_, _, _, _, _)
ProcessListRecursive(doc, dead, paras, list_element, level) ==
  ProcessListItems(doc, dead, WithoutBlankPara(paras),
                   ChildrenOf(doc, dead, list_element, {"li"}), level)

ProcessListItems(doc, dead, paras, lis, level) ==
  IF lis = <<>> THEN paras
  ELSE ProcessListItems(doc, dead,
         ProcessNestedLists(doc, dead,
           WithListItem(paras, ListItemText(doc, dead, Head(lis)), level, Head(lis)),
           ChildrenOf(doc, dead, Head(lis), {"ul", "ol"}), level),
         Tail(lis), level)

ProcessNestedLists(doc, dead, paras, lists, level) ==
  IF lists = <<>> THEN paras
  ELSE ProcessNestedLists(doc, dead,
         ProcessListRecursive(doc, dead, paras, Head(lists), level + 1),
         Tail(lists), level)

\* _add_list_content(content_box, list_element)
AddListContent(doc, dead, slides, cur, box, list_element) ==
  IF ~HasTextFrame(box) THEN [err |-> TRUE, slides |-> slides]
  ELSE [err |-> FALSE,
        slides |-> [slides EXCEPT ![cur].paras =
                      ProcessListRecursive(doc, dead, @, list_element, 0)]]

\* the cells of a row: row.find_all(["td", "th"])
RowCells(doc, dead, row) == FindAllUnder(doc, dead, row, {"td", "th"})

\* max(...) over a non-empty set of numbers
MaxOf(S) == CHOOSE m \in S : \A n \in S : n <= m

\* one row of the grid: the texts of its cells cut to 200 characters, ""
\* where the row has no cell
GridRow(doc, dead, cells, max_cols) ==
  [j \in 1..max_cols |->
     IF j <= Len(cells)
     THEN Take(GetText(doc, dead, cells[j]), MaxCellLength)
     ELSE <<>>]

\* the grid _add_table_to_slide builds: one row per tr, max_cols columns
TableGrid(doc, dead, rows, max_cols) ==
  [i \in 1..Len(rows) |->
     GridRow(doc, dead, RowCells(doc, dead, rows[i]), max_cols)]

\* is_header of a row: any cell is a th
IsHeaderRow(doc, cells) == \E c \in 1..Len(cells) : doc[cells[c]].tag = "th"

\* the cell counts of the rows that have cells
RowWidths(doc, dead, rows) ==
  {Len(RowCells(doc, dead, rows[i])) : i \in 1..Len(rows)} \ {0}

\* lines 545-579 for rows and the widths of the rows that have cells
AddTableShape(doc, dead, slides, cur, table_element, rows, widths) ==
  IF rows = <<>> THEN slides
  ELSE IF widths = {} THEN slides    \* max() of nothing: ValueError, caught
  ELSE [slides EXCEPT ![cur].tables =
          Append(@, [grid   |-> TableGrid(doc, dead, rows, MaxOf(widths)),
                     header |-> IsHeaderRow(doc, RowCells(doc, dead, rows[1])),
                     src    |-> table_element])]

\* the rows _add_table_to_slide works on: table_element.find_all("tr")
TableRowsOf(doc, dead, table_element) ==
  FindAllUnder(doc, dead, table_element, {"tr"})

\* _add_table_to_slide(slide, table_element): errors are caught inside
AddTableRows(doc, dead, slides, cur, table_element, rows) ==
  AddTableShape(doc, dead, slides, cur, table_element, rows,
                RowWidths(doc, dead, rows))

AddTableToSlide(doc, dead, slides, cur, table_element) ==
  AddTableRows(doc, dead, slides, cur, table_element,
               TableRowsOf(doc, dead, table_element))

\* _add_fallback_slide(prs, title, content)
AddFallbackSlide(slides, title, content) ==
  Append(slides, [layout |-> "content", title |-> title, sub |-> <<>>,
                  paras |-> <<[kind |-> "text", text |-> content,
                               level |-> 0, src |-> 0]>>,
                  tables |-> <<>>, notes |-> <<>>, src |-> 0])

\* the note put in front of the cleaned notes
WithCleanNoteFront(cleaned, key) ==
  IF key[2] # <<>> /\ \A k \in 1..Len(cleaned) : cleaned[k] # key
  THEN <<key>> \o cleaned
  ELSE cleaned

\* lines 737-742: a note joins the cleaned notes unless it is empty or its
\* (slide, note) key is among them
WithCleanNote(cleaned, key) ==
  IF key[2] # <<>> /\ \A k \in 1..Len(cleaned) : cleaned[k] # key
  THEN Append(cleaned, key)
  ELSE cleaned

\* the blocks _save_speaker_notes_textfile writes: the notes stripped, the
\* empty ones and the repeated (slide, note) keys dropped, order kept
RECURSIVE CleanedNotes(_)
CleanedNotes(notes) ==
  IF notes = <<>> THEN <<>>
  ELSE WithCleanNote(CleanedNotes(SubSeq(notes, 1, Len(notes) - 1)),
                     << notes[Len(notes)][1], Strip(notes[Len(notes)][2]) >>)

\* ---------------------------------------------------------------- inputs

(***************************************************************************)
(* The texts and node trees the conversions are run on.                    *)
(***************************************************************************)
TxtIntro ==
  <<"I","n","t","r","o">>

TxtBody ==
  <<"B","o","d","y">>

TxtHelloNote ==
  <<"H","e","l","l","o"," ","S","p","e","a","k","e","r"," ","N","o","t","e",
    "s",":"," ","r","e","m","e","m","b","e","r"," ","t","h","e"," ","d","e",
    "m","o">>

TxtNote ==
  <<"S","p","e","a","k","e","r"," ","N","o","t","e","s",":"," ","r","e","m",
    "e","m","b","e","r"," ","t","h","e"," ","d","e","m","o">>

TxtTip ==
  <<" ","s","p","e","a","k","e","r"," ","n","o","t","e","s"," ",":"," ","t",
    "i","p"," ">>

TxtDemo ==
  <<"r","e","m","e","m","b","e","r"," ","t","h","e"," ","d","e","m","o">>

TxtSlide3 ==
  <<"S","l","i","d","e"," ","3",":"," ">>

TxtSlide12 ==
  <<"S","L","I","D","E","1","2"," ",":">>

TxtSlideNoNumber ==
  <<"S","l","i","d","e"," ",":"," ">>

TxtContent ==
  <<"C","o","n","t","e","n","t">>

TxtList ==
  <<"L","i","s","t">>

TxtCode ==
  <<"C","o","d","e">>

TxtNoContent ==
  <<"N","o"," ","C","o","n","t","e","n","t"," ","F","o","u","n","d">>

TxtNoContentBody ==
  <<"T","h","e"," ","c","a","n","v","a","s"," ","a","p","p","e","a","r","s",
    " ","t","o"," ","b","e"," ","e","m","p","t","y"," ","o","r"," ","c","o",
    "u","l","d"," ","n","o","t"," ","b","e"," ","p","r","o","c","e","s","s",
    "e","d",".">>

\* n copies of character c
Rep(c, n) == [k \in 1..n |-> c]

\* a tree given with positions of its own, placed after `offset` nodes
Shift(item, offset) ==
  [k \in 1..Len(item) |->
     [item[k] EXCEPT !.parent = IF @ = 0 THEN 0 ELSE @ + offset]]

\* a tree placed after the nodes of front
PlaceAfter(front, item) == front \o Shift(item, Len(front))

\* the document made of the trees of items, one after the other
RECURSIVE Concat(_)
Concat(items) ==
  IF items = <<>> THEN <<>>
  ELSE PlaceAfter(Concat(SubSeq(items, 1, Len(items) - 1)), items[Len(items)])

Leaf(tag, text) == <<Node(tag, text, {}, 0)>>

\* <div class="cm-line">text</div>
CodeLine(text) == <<Node("div", text, {"cm-line"}, 0)>>

\* the position of row r's tr inside a table whose rows hold counts cells
RECURSIVE RowStart(_, _)
RowStart(counts, r) ==
  IF r = 1 THEN 2 ELSE RowStart(counts, r - 1) + 1 + counts[r - 1]

\* a table whose r-th row holds counts[r] cells (th in a header row)
RECURSIVE TableRows(_, _, _)
TableRows(counts, r, header) ==
  IF r > Len(counts) THEN <<>>
  ELSE <<Node("tr", <<>>, {}, 1)>>
       \o [c \in 1..counts[r] |->
             Node(IF header /\ r = 1 THEN "th" ELSE "td",
                  <<"r">>, {}, RowStart(counts, r))]
       \o TableRows(counts, r + 1, header)

Table(counts, header) ==
  <<Node("table", <<>>, {}, 0)>> \o TableRows(counts, 1, header)

\* a list nested depth levels deep, one item per level, texts "1", "2", ...
ChainList(depth) ==
  [k \in 1..(2 * depth) |->
     IF k % 2 = 1 THEN Node(IF k % 4 = 1 THEN "ul" ELSE "ol", <<>>, {}, k - 1)
     ELSE Node("li", <<"i">>, {}, k - 1)]

\* <ul><li>a<ul><li>b</li></ul></li><li>c</li></ul>
BranchList ==
  << Node("ul", <<>>, {}, 0), Node("li", <<"a">>, {}, 1),
     Node("ul", <<>>, {}, 2), Node("li", <<"b">>, {}, 3),
     Node("li", <<"c">>, {}, 1) >>

\* <ul><li><p>Body</p><span>a</span></li></ul>
ParaList ==
  << Node("ul", <<>>, {}, 0), Node("li", <<>>, {}, 1),
     Node("p", TxtBody, {}, 2), Node("span", <<"a">>, {}, 2) >>

\* <pre><code>a</code></pre>
PreCode == << Node("pre", <<>>, {}, 0), Node("code", <<"a">>, {}, 1) >>

\* <div><p>Hello Speaker Notes: remember the demo</p></div>
WrappedNote == << Node("div", <<>>, {}, 0), Node("p", TxtHelloNote, {}, 1) >>

ItemH1 == Leaf("h1", TxtIntro)

ItemH3 == Leaf("h3", TxtSlide3 \o TxtIntro)

ItemPara == Leaf("p", TxtBody)

ItemNotePara == Leaf("p", TxtHelloNote)

ItemNoteDiv == Leaf("div", TxtNote)

ItemTipDiv == Leaf("div", TxtTip)

ItemQuote == Leaf("blockquote", TxtBody)

ItemRule == Leaf("hr", <<>>)

ItemTable22 == Table(<<2, 2>>, TRUE)

\* the longest document of CoreDocs, in items
MaxNodes == 2

\* the deepest list of ListDocs
MaxDepth == 6

\* the conversions one generator object is used for
MaxRuns == 2

SeqsUpTo(S, n) == UNION {[1..k -> S] : k \in 0..n}

CoreItems ==
  {ItemH1, ItemPara, ItemNotePara, CodeLine(<<"a">>), ItemTable22, BranchList}

\* every document of at most MaxNodes core items
CoreDocs == {Concat(q) : q \in SeqsUpTo(CoreItems, MaxNodes)}

\* lists of every depth, after a heading and as the first content
ListDocs ==
  {Concat(<<ItemH3, ChainList(d)>>) : d \in 1..MaxDepth}
  \cup {ChainList(d) : d \in 1..MaxDepth}

\* <h1>Intro</h1><p>Hello Speaker Notes: remember the demo</p> and a
\* table of two rows of two cells
DocIntro == Concat(<<ItemH1, ItemNotePara, ItemTable22>>)

\* a heading and a table whose rows hold 3, 1, 0 and 2 cells
DocRaggedTable == Concat(<<ItemH3, Table(<<3, 1, 0, 2>>, FALSE)>>)

\* three code lines "a", "b", "c" and a block quote, no heading before them
DocCodeRun ==
  Concat(<<CodeLine(<<"a">>), CodeLine(<<"b">>), CodeLine(<<"c">>), ItemQuote>>)

\* heading, subheading and a leading note, then a second note paragraph
DocTwoLeadingNotes ==
  Concat(<<ItemH1, ItemPara, ItemNotePara, Leaf("p", TxtTip), ItemH3>>)

ScenarioDocs ==
  { Concat(<<ItemRule>>),
    DocIntro,
    Concat(<<ItemH1, ItemPara, ItemNotePara, ItemPara, ItemH3,
             ItemNotePara, ItemNoteDiv>>),
    Concat(<<ItemH1, ItemPara, ItemNotePara, ItemNotePara, ItemH3>>),
    DocTwoLeadingNotes,
    Concat(<<ItemH3, Leaf("h4", TxtNote), CodeLine(<<"a">>), Leaf("h5", TxtTip)>>),
    Concat(<<ItemH3, ItemNoteDiv, WrappedNote>>),
    Concat(<<ItemH3, ItemNoteDiv, ItemTipDiv>>),
    Concat(<<ItemH3, ItemTipDiv, ItemH3, ItemTipDiv>>),
    Concat(<<ItemNoteDiv, ItemH3>>),
    DocCodeRun,
    Concat(<<ItemH3, CodeLine(<<"a">>), CodeLine(<<"b">>), CodeLine(<<"c">>),
             ItemQuote>>),
    Concat(<<ItemH3, CodeLine(<<"a">>), CodeLine(<<" ">>), CodeLine(<<"b">>),
             ItemH3>>),
    Concat(<<ItemH3, CodeLine(<<"a">>), ItemNoteDiv, CodeLine(<<"b">>),
             ItemTable22>>),
    Concat(<<ItemH3, CodeLine(<<"a">>)>>),
    Concat(<<ItemH3, BranchList>>),
    Concat(<<ItemH3, ParaList>>),
    DocRaggedTable,
    Concat(<<ItemH3, Table(<<0, 0>>, FALSE)>>),
    Concat(<<ItemH3, Table(<<>>, FALSE)>>),
    Concat(<<ItemH3, PreCode>>),
    Concat(<<PreCode>>),
    Concat(<<ItemH3, Leaf("code", <<"a">>)>>) }

TxtSlide4Y ==
  <<"S","l","i","d","e"," ","4",":"," ","y">>

\* heading texts without a prefix of their own, around the title cut, and
\* one that starts with a "Slide n:" prefix itself
HeadingBodies ==
  {<<"y">>, Rep("x", MaxTitleLength), Rep("x", MaxTitleLength + 1), TxtSlide4Y}

\* what is put in front of a heading text
HeadingPrefixes == {TxtSlide3, TxtSlide12, TxtSlideNoNumber}

\* two headings, the second the first with something in front
HeadingDocs ==
  {Concat(<<Leaf("h3", b), Leaf("h4", p \o b)>>) :
     b \in HeadingBodies, p \in HeadingPrefixes}

\* the documents a conversion is run on
Docs == CoreDocs \cup ListDocs \cup ScenarioDocs \cup HeadingDocs

\* ---------------------------------------------------------- SafeFilename

(***************************************************************************)
(* SafeFilename.sanitize works on the characters' code points: a file name *)
(* is a sequence of code points here.                                      *)
(***************************************************************************)

\* the class [<>:"/\\|?*] of line 84: < > : " / \ | ? *
Dangerous == {60, 62, 58, 34, 47, 92, 124, 63, 42}

\* what \s of line 85 matches in a str pattern: str.isspace()
Whitespace ==
  (9..13) \cup (28..32) \cup {133, 160, 5760} \cup (8192..8202)
    \cup {8232, 8233, 8239, 8287, 12288}

\* the underscore both substitutions put in
Underscore == <<95>>

\* the default of max_length
DefaultMaxLength == 100

\* the room left for ".pptx"
ExtensionRoom == 5

\* 'canvas_export'
CanvasExport == <<99, 97, 110, 118, 97, 115, 95, 101, 120, 112, 111, 114, 116>>

\* re.sub(r'[<>:"/\\|?*]', '_', filename)
ReplaceDangerous(name) ==
  [i \in 1..Len(name) |-> IF name[i] \in Dangerous THEN Underscore[1]
                          ELSE name[i]]

\* re.sub(r'\s+', '_', filename) from position i on: one underscore for
\* each maximal run of whitespace
RECURSIVE CollapseFrom(_, _)
CollapseFrom(name, i) ==
  IF i > Len(name) THEN <<>>
  ELSE IF name[i] \notin Whitespace THEN <<name[i]>> \o CollapseFrom(name, i + 1)
  ELSE IF i > 1 /\ name[i - 1] \in Whitespace THEN CollapseFrom(name, i + 1)
  ELSE Underscore \o CollapseFrom(name, i + 1)

CollapseWhitespace(name) == CollapseFrom(name, 1)

\* the compatibility decomposition of one character, as unicodedata gives
\* it: NO-BREAK SPACE, DIAERESIS, LATIN SMALL LETTER E WITH ACUTE, ACCOUNT
\* OF, FULLWIDTH LESS-THAN SIGN; ASCII characters, combining marks and CJK
\* ideographs have none
Decomposition(c) ==
  CASE c = 160   -> <<32>>
    [] c = 168   -> <<32, 776>>
    [] c = 233   -> <<101, 769>>
    [] c = 8448  -> <<97, 47, 99>>
    [] c = 65308 -> <<60>>
    [] OTHER     -> <<c>>

\* unicodedata.normalize('NFKD', filename); every decomposition above
\* starts with a base character, so no marks are reordered
RECURSIVE Normalize(_)
Normalize(name) ==
  IF name = <<>> THEN <<>>
  ELSE Decomposition(Head(name)) \o Normalize(Tail(name))

\* ''.join(c for c in filename if ord(c) < 128)
IsAscii(c) == c < 128

AsciiOnly(name) == SelectSeq(name, IsAscii)

\* name[:n] of Python: a negative n counts from the end
Slice(name, n) == IF n >= 0 THEN Take(name, n) ELSE Take(name, Len(name) + n)

\* lines 92-93
Truncate(name, maxlen) ==
  IF Len(name) > maxlen - ExtensionRoom
  THEN Slice(name, maxlen - ExtensionRoom)
  ELSE name

\* line 95
OrCanvasExport(name) == IF name # <<>> THEN name ELSE CanvasExport

\* SafeFilename.sanitize(filename, max_length)
sanitize(name, maxlen) ==
  OrCanvasExport(
    Truncate(AsciiOnly(Normalize(CollapseWhitespace(ReplaceDangerous(name)))),
             maxlen))

\* the longest file name passed to sanitize
MaxNameLen == 3

\* the characters of the file names: a < / space, NO-BREAK SPACE, e with
\* acute, FULLWIDTH LESS-THAN SIGN, DIAERESIS, ACCOUNT OF, the ideograph
\* U+65E5
NameChars == {97, 60, 47, 32, 160, 233, 65308, 168, 8448, 26085}

\* the file names passed to sanitize
Filenames == UNION {[1..n -> NameChars] : n \in 0..MaxNameLen}

\* the values of max_length: around the room for the extension, up to
\* limits that cut the longest names, and the default
MaxLengths ==
  ((ExtensionRoom - 1)..(ExtensionRoom + MaxNameLen)) \cup {DefaultMaxLength}

\* --------------------------------------------------------------- program

VARIABLES
  speaker_notes_txt,  \* self.speaker_notes_txt: the (slide number, note) list
  notes_seen,         \* self.notes_seen
  slide_count,        \* self.slide_count
  runs,               \* conversions started with this generator
  pc,                 \* where create_enhanced_presentation stands
  doc,                \* content_div
  dead,               \* the nodes decompose() removed
  elements,           \* the find_all result the running loop walks
  idx,                \* the position of that loop in elements
  heading,            \* title extraction: heading (<<>>: None)
  subheading,         \* title extraction: subheading
  speaker_notes,      \* title extraction: speaker_notes
  slides,             \* prs.slides
  current_slide,      \* main pass: the open slide's position (0: None)
  content_box,        \* main pass: "none", "frame" or "placeholder"
  code_buffer,        \* main pass: code_buffer
  processed,          \* main pass: processed_elements
  result,             \* what the call returns: "none" (running), "true", "false"
  pptx_saved,         \* prs.save() wrote the presentation
  sidecar,            \* the blocks written to <stem>_speaker_notes.txt
  lastOp,             \* the branch the last step took
  filename,           \* SafeFilename.sanitize: filename, as passed
  max_length,         \* SafeFilename.sanitize: max_length
  sanitized           \* what sanitize returned (<<>>: not called)

vars == << speaker_notes_txt, notes_seen, slide_count, runs, pc, doc, dead,
           elements, idx, heading, subheading, speaker_notes, slides,
           current_slide, content_box, code_buffer, processed, result,
           pptx_saved, sidecar, lastOp, filename, max_length, sanitized >>

generator == << speaker_notes_txt, notes_seen, slide_count >>

titleLocals == << heading, subheading, speaker_notes >>

passLocals == << current_slide, content_box, code_buffer, processed >>

outputs == << result, pptx_saved, sidecar >>

sanitizeCall == << filename, max_length, sanitized >>

\* the locals of a call that is not running
NoCall ==
  /\ doc = <<>> /\ dead = {} /\ elements = <<>> /\ idx = 1
  /\ heading = <<>> /\ subheading = <<>> /\ speaker_notes = <<>>
  /\ slides = <<>> /\ current_slide = 0 /\ content_box = "none"
  /\ code_buffer = <<>> /\ processed = {}
  /\ result = "none" /\ pptx_saved = FALSE /\ sidecar = <<>>

\* sanitize has not been called
NoSanitize ==
  /\ filename = <<>>
  /\ max_length = DefaultMaxLength
  /\ sanitized = <<>>

\* PowerPointGenerator.__init__
Constructed ==
  /\ speaker_notes_txt = <<>>
  /\ notes_seen = {}
  /\ slide_count = 0
  /\ runs = 0
  /\ pc = "idle"
  /\ NoCall
  /\ lastOp = "init"

Init == Constructed /\ NoSanitize

\* create_enhanced_presentation(content_div, ...) is called: a new
\* Presentation, and the nodes the title extraction will scan
Start(d) ==
  /\ pc = "idle"
  /\ runs < MaxRuns
  /\ runs' = runs + 1
  /\ doc' = d
  /\ dead' = {}
  /\ elements' = FindAll(d, {}, TitleTags)
  /\ idx' = 1
  /\ pc' = "title"
  /\ lastOp' = "start"
  /\ UNCHANGED << generator, titleLocals, slides, passLocals, outputs,
                  sanitizeCall >>

StartDoc == pc = "idle" /\ runs < MaxRuns /\ \E d \in Docs : Start(d)

\* the text the title loop works on: get_text(strip=True) without a
\* "Slide n:" prefix
TitleText(d, gone, el) == StripSlidePrefix(GetText(d, gone, el))

\* lines 208-212: the text holds the notes marker
TitleNote(el, text) ==
  /\ speaker_notes' = Strip(SplitNotes(text).notes)
  /\ dead' = Decompose(doc, dead, el)
  /\ idx' = idx + 1
  /\ lastOp' = "title_note"
  /\ UNCHANGED << heading, subheading >>

\* lines 215-224: heading, then subheading, then the test that ends the loop
TitleAssign(el, text) ==
  /\ heading' = IF heading = <<>> THEN text ELSE heading
  /\ subheading' = IF heading # <<>> /\ subheading = <<>>
                   THEN text ELSE subheading
  /\ dead' = IF heading = <<>> \/ subheading = <<>>
             THEN Decompose(doc, dead, el) ELSE dead
  /\ idx' = IF heading' # <<>> /\ subheading' # <<>> /\ speaker_notes # <<>>
            THEN Len(elements) + 1      \* break
            ELSE idx + 1
  /\ lastOp' = IF heading = <<>> THEN "title_heading"
               ELSE IF subheading = <<>> THEN "title_subheading"
               ELSE "title_pass"
  /\ UNCHANGED speaker_notes

TitleStepOn(el, text) ==
  IF HasNotesMarker(text) THEN TitleNote(el, text) ELSE TitleAssign(el, text)

\* one turn of the title loop (lines 201-224)
TitleStep ==
  /\ pc = "title"
  /\ idx <= Len(elements)
  /\ TitleStepOn(elements[idx], TitleText(doc, dead, elements[idx]))
  /\ UNCHANGED << generator, runs, sanitizeCall, pc, doc, elements, slides, passLocals,
                  outputs >>

\* the note recorded under the 0-based position of the slide
TitleRecordNoteZeroBased(seen, list, key) ==
  IF key \notin seen /\ key[2] # <<>>
  THEN [seen |-> seen \cup {key}, list |-> Append(list, << key[1] - 1, key[2] >>)]
  ELSE [seen |-> seen, list |-> list]

\* lines 282-285: the title slide's note goes to the notes list unless its
\* key is known or its text is empty
TitleRecordNote(seen, list, key) ==
  IF key \notin seen /\ key[2] # <<>>
  THEN [seen |-> seen \cup {key}, list |-> Append(list, key)]
  ELSE [seen |-> seen, list |-> list]

\* the note recorded without looking at notes_seen
BodyRecordNoteUnguarded(seen, list, key) ==
  IF key[2] # <<>>
  THEN [seen |-> seen \cup {key}, list |-> Append(list, key), new |-> TRUE]
  ELSE [seen |-> seen, list |-> list, new |-> FALSE]

\* lines 327-330: the same for a note met in the main pass
BodyRecordNote(seen, list, key) ==
  IF key[2] # <<>> /\ key \notin seen
  THEN [seen |-> seen \cup {key}, list |-> Append(list, key), new |-> TRUE]
  ELSE [seen |-> seen, list |-> list, new |-> FALSE]

\* the slide add_custom_title_slide builds
TitleSlide(h, sub, notes) ==
  [layout |-> "title", title |-> h, sub |-> CleanSubheading(sub),
   paras |-> <<>>, tables |-> <<>>, notes |-> Strip(notes), src |-> 0]

\* x or default
OrElse(x, default) == IF x = <<>> THEN default ELSE x

\* lines 278-285 for the title slide at position n of prs
TitleNotes(n, notes) ==
  IF notes # <<>>
  THEN TitleRecordNote(notes_seen, speaker_notes_txt, << n, Strip(notes) >>)
  ELSE [seen |-> notes_seen, list |-> speaker_notes_txt]

RecordTitleNotes(rec) ==
  /\ notes_seen' = rec.seen
  /\ speaker_notes_txt' = rec.list

\* add_custom_title_slide (line 227), then the main pass begins: its
\* find_all and its locals (lines 295-306)
AddTitleSlide ==
  /\ pc = "title"
  /\ idx > Len(elements)
  /\ slides' = Append(slides, TitleSlide(OrElse(heading, <<" ">>),
                                         OrElse(subheading, <<" ">>),
                                         speaker_notes))
  /\ RecordTitleNotes(TitleNotes(Len(slides) + 1, speaker_notes))
  /\ slide_count' = slide_count + 1
  /\ elements' = FindAll(doc, dead, ContentTags)
  /\ idx' = 1
  /\ current_slide' = 0
  /\ content_box' = "none"
  /\ code_buffer' = <<>>
  /\ processed' = {}
  /\ pc' = "body"
  /\ lastOp' = "title_slide"
  /\ UNCHANGED << runs, sanitizeCall, doc, dead, titleLocals, outputs >>

\* ---- the main pass, one element per step (lines 308-411)

\* the loop stands at an element; find_all lists no element twice, so the
\* test of line 311 holds for none
InBody == pc = "body" /\ idx <= Len(elements) /\ elements[idx] \notin processed

Cur == elements[idx]

CurTag == doc[Cur].tag

\* element_text (line 314)
CurText == GetText(doc, dead, Cur)

\* line 319
IsNoteNode == HasNotesMarker(CurText)

\* line 338
IsCodeLine == CurTag = "div" /\ "cm-line" \in doc[Cur].cls

\* lines 353-368: the element is part of another element
IsNested ==
  \/ CurTag \in {"p", "span"} /\ HasParent(doc, Cur, {"ul", "ol", "li"})
  \/ CurTag = "p" /\ HasParent(doc, Cur, {"li"})
  \/ CurTag = "span" /\ (HasParent(doc, Cur, {"p"}) \/ HasParent(doc, Cur, {"li"}))
  \/ CurTag = "code" /\ HasParent(doc, Cur, {"pre"})

\* line 378
IsTopList == CurTag \in {"ol", "ul"} /\ ~HasParent(doc, Cur, {"ul", "ol"})

\* the pass's view of the deck: prs.slides, current_slide, content_box,
\* self.slide_count, code_buffer, and whether an error was raised
Deck(err, deck, cur, box, count, buffer) ==
  [err |-> err, slides |-> deck, cur |-> cur, box |-> box, count |-> count,
   buffer |-> buffer]

\* line 349 on the slide es that _ensure_slide gave, line 350
FlushInto(es, ac) == Deck(ac.err, ac.slides, es.cur, es.box, es.count, <<>>)

FlushOnto(es, buffer) ==
  FlushInto(es, AddCodeContent(es.slides, es.cur, es.box,
                  [tag |-> FALSE, text |-> Join(buffer, <<"\n">>)], 0))

\* the buffer left as it is, nothing emitted
FlushCodeSkipped(deck, cur, box, count, buffer) ==
  Deck(FALSE, deck, cur, box, count, buffer)

\* lines 347-350 (and 409-411): the buffered code lines become one code
\* paragraph of the open slide, a slide "Content" is opened when none is
FlushCode(deck, cur, box, count, buffer) ==
  IF buffer = <<>>
  THEN Deck(FALSE, deck, cur, box, count, buffer)
  ELSE FlushOnto(EnsureSlide(deck, cur, count, TxtContent), buffer)

\* the state after the flush of lines 347-350 for the current element
Flushed == FlushCode(slides, current_slide, content_box, slide_count, code_buffer)

\* the loop goes on to the next element
NextElement(op) ==
  /\ idx' = idx + 1
  /\ lastOp' = op
  /\ UNCHANGED << runs, sanitizeCall, pc, doc, dead, elements, titleLocals, outputs >>

\* the pass takes over what a step made of the deck
Commit(st) ==
  /\ slides' = st.slides
  /\ slide_count' = st.count
  /\ current_slide' = st.cur
  /\ content_box' = st.box
  /\ code_buffer' = st.buffer

\* the note recorded also when no slide is open
AttachNoteAnywhere(note, rec) ==
  /\ notes_seen' = rec.seen
  /\ speaker_notes_txt' = rec.list
  /\ slides' = IF rec.new /\ current_slide # 0
               THEN [slides EXCEPT ![current_slide].notes = note]
               ELSE slides
  /\ NextElement(IF current_slide = 0 THEN "note_no_slide"
                 ELSE IF rec.new THEN "note" ELSE "note_known")

\* lines 324-331: the note goes to the open slide and to the notes list
AttachNote(note, rec) ==
  IF current_slide # 0
  THEN /\ notes_seen' = rec.seen
       /\ speaker_notes_txt' = rec.list
       /\ slides' = IF rec.new
                    THEN [slides EXCEPT ![current_slide].notes = note]
                    ELSE slides
       /\ NextElement(IF rec.new THEN "note" ELSE "note_known")
  ELSE /\ UNCHANGED << notes_seen, speaker_notes_txt, slides >>
       /\ NextElement("note_no_slide")

InterceptNote(note) ==
  AttachNote(note, BodyRecordNote(notes_seen, speaker_notes_txt,
                                  << slide_count, note >>))

\* lines 319-335: a node whose text holds the notes marker
BodyNote ==
  /\ InBody
  /\ IsNoteNode
  /\ InterceptNote(Strip(SplitNotes(CurText).notes))
  /\ processed' = processed \cup {Cur}
  /\ UNCHANGED << slide_count, current_slide, content_box, code_buffer >>

\* the line put in front of the buffered ones
BufferedFront(buffer, code_text) ==
  IF code_text # <<>> THEN <<code_text>> \o buffer ELSE buffer

\* lines 340-342
Buffered(buffer, code_text) ==
  IF code_text # <<>> THEN Append(buffer, code_text) ELSE buffer

\* lines 338-344: a code-line container
BodyCodeLine ==
  /\ InBody
  /\ ~IsNoteNode
  /\ IsCodeLine
  /\ code_buffer' = Buffered(code_buffer, CurText)
  /\ processed' = processed \cup {Cur}
  /\ NextElement("code_line")
  /\ UNCHANGED << generator, slides, current_slide, content_box >>

\* the element is neither a note nor a code line: the flush comes first
AfterFlush == InBody /\ ~IsNoteNode /\ ~IsCodeLine

\* the error of lines 347-350 ends the call (lines 247-249)
Abort(st) ==
  /\ slides' = st.slides
  /\ slide_count' = st.count
  /\ current_slide' = st.cur
  /\ content_box' = st.box
  /\ result' = "false"
  /\ pc' = "done"
  /\ lastOp' = "flush_error"
  /\ UNCHANGED << speaker_notes_txt, notes_seen, runs, sanitizeCall, doc, dead, elements,
                  idx, titleLocals, code_buffer, processed, pptx_saved,
                  sidecar >>

\* lines 347-350 raise: the error leaves _process_content_elements and
\* create_enhanced_presentation catches it
BodyFlushError ==
  /\ AfterFlush
  /\ Flushed.err
  /\ Abort(Flushed)

\* lines 353-368
BodySkipNested ==
  /\ AfterFlush
  /\ ~Flushed.err
  /\ IsNested
  /\ Commit(Flushed)
  /\ processed' = processed \cup {Cur}
  /\ NextElement("nested")
  /\ UNCHANGED << speaker_notes_txt, notes_seen >>

\* the element reaches the dispatch of lines 370-401
AtDispatch == AfterFlush /\ ~Flushed.err /\ ~IsNested

\* lines 409-411 on the slide a step left open; code_buffer is not emptied
\* there
TrailingFlush(st) ==
  [FlushCode(st.slides, st.cur, st.box, st.count, st.buffer)
     EXCEPT !.buffer = st.buffer]

\* line 375 after the flush f
OpenHeadingSlide(f, ns) ==
  Deck(FALSE, ns.slides, ns.cur, ns.box, ns.count, f.buffer)

HeadingSlide(f) ==
  OpenHeadingSlide(f, AddContentSlide(f.slides, f.count, CurText, Cur))

\* lines 374-375, 401 and 409-411: a heading opens a slide
BodyHeading ==
  /\ AtDispatch
  /\ CurTag \in HeadingTags
  /\ Commit(TrailingFlush(HeadingSlide(Flushed)))
  /\ processed' = processed \cup {Cur}
  /\ NextElement("heading")
  /\ UNCHANGED << speaker_notes_txt, notes_seen >>

\* lines 379-380 on the slide es that _ensure_slide gave
ListOnto(f, es, al) ==
  /\ Commit(Deck(FALSE, al.slides, es.cur, es.box, es.count, f.buffer))
  /\ NextElement(IF al.err THEN "list_error" ELSE "list")

ListInto(f, es) ==
  ListOnto(f, es, AddListContent(doc, dead, es.slides, es.cur, es.box, Cur))

\* lines 378-382 (and 403-406 when _add_list_content raises)
BodyList ==
  /\ AtDispatch
  /\ CurTag \notin HeadingTags
  /\ IsTopList
  /\ ListInto(Flushed, EnsureSlide(Flushed.slides, Flushed.cur, Flushed.count,
                                   TxtList))
  /\ processed' = processed \cup {Cur}
  /\ UNCHANGED << speaker_notes_txt, notes_seen >>

\* lines 390-391 on the slide es that _ensure_slide gave
TableInto(f, es) ==
  Deck(FALSE, AddTableToSlide(doc, dead, es.slides, es.cur, Cur),
       es.cur, es.box, es.count, f.buffer)

\* lines 389-393
BodyTable ==
  /\ AtDispatch
  /\ CurTag = "table"
  /\ Commit(TableInto(Flushed, EnsureSlide(Flushed.slides, Flushed.cur,
                                           Flushed.count, TxtContent)))
  /\ processed' = processed \cup {Cur}
  /\ NextElement("table")
  /\ UNCHANGED << speaker_notes_txt, notes_seen >>

\* lines 397-399 on the slide es that _ensure_slide gave; an error goes to
\* lines 403-406
CodeOnto(f, es, ac) ==
  /\ Commit(Deck(FALSE, ac.slides, es.cur, es.box, es.count, f.buffer))
  /\ processed' = IF ac.err THEN processed \cup {Cur} ELSE processed
  /\ NextElement(IF ac.err THEN "code_error" ELSE "code")

CodeInto(f, es) ==
  CodeOnto(f, es, AddCodeContent(es.slides, es.cur, es.box,
                                 [tag |-> TRUE, text |-> CurText], Cur))

\* lines 396-399 (and 403-406): the element itself is handed to
\* _add_code_content
BodyPreCode ==
  /\ AtDispatch
  /\ CurTag \in {"pre", "code"}
  /\ CodeInto(Flushed, EnsureSlide(Flushed.slides, Flushed.cur, Flushed.count,
                                   TxtCode))
  /\ UNCHANGED << speaker_notes_txt, notes_seen >>

\* line 401 and 409-411: any other tag is marked processed
BodyOther ==
  /\ AtDispatch
  /\ CurTag \notin HeadingTags \cup {"table", "pre", "code"}
  /\ ~IsTopList
  /\ Commit(TrailingFlush(Flushed))
  /\ processed' = processed \cup {Cur}
  /\ NextElement("other")
  /\ UNCHANGED << speaker_notes_txt, notes_seen >>

\* ---- after the pass (lines 233-249)

\* _process_content_elements returns; lines 234-235
Finish ==
  /\ pc = "body"
  /\ idx > Len(elements)
  /\ slides' = IF Len(slides) = 0
               THEN AddFallbackSlide(slides, TxtNoContent, TxtNoContentBody)
               ELSE slides
  /\ slide_count' = IF Len(slides) = 0 THEN slide_count + 1 ELSE slide_count
  /\ pc' = "save"
  /\ lastOp' = "finish"
  /\ UNCHANGED << speaker_notes_txt, notes_seen, runs, sanitizeCall, doc, dead, elements,
                  idx, titleLocals, passLocals, outputs >>

\* _save_presentation writes the file (line 238); with no notes the call
\* returns True (lines 240-245)
SaveOk ==
  /\ pc = "save"
  /\ pptx_saved' = TRUE
  /\ IF speaker_notes_txt # <<>>
     THEN pc' = "notes" /\ result' = result
     ELSE pc' = "done" /\ result' = "true"
  /\ lastOp' = "save"
  /\ UNCHANGED << generator, runs, sanitizeCall, doc, dead, elements, idx, titleLocals,
                  slides, passLocals, sidecar >>

\* _save_presentation raises and the call goes on to the notes file
SaveFailThenNotes ==
  /\ pc = "save"
  /\ result' = result
  /\ pc' = "notes"
  /\ lastOp' = "save_error"
  /\ UNCHANGED << generator, runs, sanitizeCall, doc, dead, elements, idx, titleLocals,
                  slides, passLocals, pptx_saved, sidecar >>

\* _save_presentation raises IOError (lines 716, 722, 724): the call
\* returns False (lines 247-249)
SaveFail ==
  /\ pc = "save"
  /\ result' = "false"
  /\ pc' = "done"
  /\ lastOp' = "save_error"
  /\ UNCHANGED << generator, runs, sanitizeCall, doc, dead, elements, idx, titleLocals,
                  slides, passLocals, pptx_saved, sidecar >>

\* _save_speaker_notes_textfile (line 241): the blocks are written, or the
\* write fails and the error is logged; the call returns True either way
WriteNotes ==
  /\ pc = "notes"
  /\ \E written \in BOOLEAN :
       /\ sidecar' = IF written THEN CleanedNotes(speaker_notes_txt) ELSE sidecar
       /\ lastOp' = IF written THEN "notes_file" ELSE "notes_file_error"
  /\ result' = "true"
  /\ pc' = "done"
  /\ UNCHANGED << generator, runs, sanitizeCall, doc, dead, elements, idx, titleLocals,
                  slides, passLocals, pptx_saved >>

\* the call has returned; the generator object stays
Return ==
  /\ pc = "done"
  /\ pc' = "idle"
  /\ doc' = <<>> /\ dead' = {} /\ elements' = <<>> /\ idx' = 1
  /\ heading' = <<>> /\ subheading' = <<>> /\ speaker_notes' = <<>>
  /\ slides' = <<>> /\ current_slide' = 0 /\ content_box' = "none"
  /\ code_buffer' = <<>> /\ processed' = {}
  /\ result' = "none" /\ pptx_saved' = FALSE /\ sidecar' = <<>>
  /\ lastOp' = "return"
  /\ UNCHANGED << generator, runs, sanitizeCall >>

Next ==
  \/ StartDoc
  \/ TitleStep
  \/ AddTitleSlide
  \/ BodyNote
  \/ BodyCodeLine
  \/ BodyFlushError
  \/ BodySkipNested
  \/ BodyHeading
  \/ BodyList
  \/ BodyTable
  \/ BodyPreCode
  \/ BodyOther
  \/ Finish
  \/ SaveOk
  \/ SaveFail
  \/ WriteNotes
  \/ Return

Spec == Init /\ [][Next]_vars

\* ---- SafeFilename.sanitize on its own

\* a file name and a max_length to call sanitize with
SanitizeInit ==
  /\ Constructed
  /\ filename \in Filenames
  /\ max_length \in MaxLengths
  /\ sanitized = <<>>

\* SafeFilename.sanitize(filename, max_length) returns
CallSanitize ==
  /\ sanitized = <<>>
  /\ sanitized' = << sanitize(filename, max_length) >>
  /\ UNCHANGED << filename, max_length, generator, runs, pc, doc, dead,
                  elements, idx, titleLocals, slides, passLocals, outputs,
                  lastOp >>

SanitizeNext == CallSanitize

SanitizeSpec == SanitizeInit /\ [][SanitizeNext]_vars

\* ------------------------------------------------------------ properties

\* the main pass of the running conversion is over
Ended == pc \in {"save", "notes", "done"}

\* content_div holds none of the tags the two loops look for
NoInterestingNode(d) == \A k \in 1..Len(d) : d[k].tag \notin ContentTags

\* C1: a conversion of an input without interesting nodes ends with exactly
\* two slides, the title slide and a fallback slide titled "No Content
\* Found".
C1_TitleAndFallback ==
  (Ended /\ NoInterestingNode(doc))
    => /\ Len(slides) = 2
       /\ slides[1].layout = "title"
       /\ slides[2].title = TxtNoContent

\* table t is a grid of r rows of c cells
IsGrid(t, r, c) ==
  Len(t.grid) = r /\ \A i \in 1..r : Len(t.grid[i]) = c

\* C2 as stated: heading "Intro", the note paragraph and a 2x2 table give
\* the title slide, one content slide titled "Intro" with a table of 2 rows
\* and 2 columns, and a notes list of one entry, slide 2, "remember the
\* demo".
C2_IntroSlideNoteTwo ==
  (Ended /\ doc = DocIntro)
    => /\ Len(slides) = 2
       /\ slides[1].layout = "title"
       /\ slides[2].title = TxtIntro
       /\ Len(slides[2].tables) = 1
       /\ IsGrid(slides[2].tables[1], 2, 2)
       /\ speaker_notes_txt = << << 2, TxtDemo >> >>

\* C2 amended: the same input gives the title slide titled "Intro" with
\* the note "remember the demo", and one content slide titled "Content"
\* with a table of 2 rows and 2 columns; the notes list holds the entry
\* (1, "remember the demo") once, and nothing else when the generator is
\* new.
C2_IntroIsDeckTitle ==
  (Ended /\ doc = DocIntro)
    => /\ Len(slides) = 2
       /\ slides[1].layout = "title"
       /\ slides[1].title = TxtIntro
       /\ slides[1].notes = TxtDemo
       /\ slides[2].layout = "content"
       /\ slides[2].title = TxtContent
       /\ Len(slides[2].tables) = 1
       /\ IsGrid(slides[2].tables[1], 2, 2)
       /\ Cardinality({i \in 1..Len(speaker_notes_txt) :
                         speaker_notes_txt[i] = << 1, TxtDemo >>}) = 1
       /\ (runs = 1 => speaker_notes_txt = << << 1, TxtDemo >> >>)

\* the conversion of DocIntro by a new generator has built its deck
C2_Witness ==
  pc = "save" /\ doc = DocIntro /\ runs = 1 /\ Len(slides) = 2

\* the (1-based slide index, trimmed note text) key of a notes-list entry
NoteKey(entry) == << entry[1], Strip(entry[2]) >>

\* C3: in every reachable state the notes list speaker_notes_txt holds no
\* two entries with the same (slide index, trimmed note text) key.
C3_NoDuplicateNotes ==
  \A i, j \in 1..Len(speaker_notes_txt) :
    i # j => NoteKey(speaker_notes_txt[i]) # NoteKey(speaker_notes_txt[j])

\* the main pass met a note whose key the notes list holds already
C3_Witness ==
  /\ lastOp = "note_known"
  /\ \E i \in 1..Len(speaker_notes_txt) :
       speaker_notes_txt[i][1] = slide_count

\* the rows of a table that hold at least one cell
RowsWithCells(d, gone, table_element) ==
  SelectSeq(TableRowsOf(d, gone, table_element),
            LAMBDA r : RowCells(d, gone, r) # <<>>)

\* grid has one row per row of rows, cols cells each, the cells a row does
\* not have being empty
GridOfRows(d, gone, grid, rows, cols) ==
  /\ Len(grid) = Len(rows)
  /\ \A i \in 1..Len(rows) :
       /\ Len(grid[i]) = cols
       /\ \A j \in 1..cols :
            j > Len(RowCells(d, gone, rows[i])) => grid[i][j] = <<>>

\* C4: the grid of every emitted table has as many rows as the table has
\* rows with at least one cell and as many columns as the largest cell
\* count of those rows, and each missing cell of a shorter row is the empty
\* string (cell counts 3, 1, 0, 2 give 3 rows of 3 columns).
C4_ZeroCellRowsIgnored ==
  \A s \in 1..Len(slides) : \A t \in 1..Len(slides[s].tables) :
    GridOfRows(doc, dead, slides[s].tables[t].grid,
               RowsWithCells(doc, dead, slides[s].tables[t].src),
               MaxOf(RowWidths(doc, dead,
                               TableRowsOf(doc, dead, slides[s].tables[t].src))))

\* the slide the flush of a code run writes to: the open slide, or the one
\* opened for it
FlushTarget == IF current_slide = 0 THEN Len(slides) + 1 ELSE current_slide

\* the paragraphs of that slide before the flush
ParasBeforeFlush ==
  IF current_slide = 0 THEN <<EmptyPara>> ELSE slides[current_slide].paras

\* the CodeBlock of the buffered run
CodeBlockOf(buffer) ==
  [kind |-> "code", text |-> Join(buffer, <<"\n">>), level |-> 0, src |-> 0]

\* C5: when a node that is no code-line container follows a run of
\* buffered code lines, the step appends one CodeBlock, the run joined by
\* newlines, to the open slide (or to a slide titled "Content" opened for
\* it) before anything the node itself emits, and the buffer is empty
\* afterwards.
C5_RunFlushedAsOneBlock ==
  [][ (AfterFlush /\ code_buffer # <<>>)
        => /\ code_buffer' = <<>>
           /\ Len(slides') >= FlushTarget
           /\ (current_slide = 0 => slides'[FlushTarget].title = TxtContent)
           /\ Len(slides'[FlushTarget].paras) > Len(ParasBeforeFlush)
           /\ SubSeq(slides'[FlushTarget].paras, 1, Len(ParasBeforeFlush) + 1)
                = Append(ParasBeforeFlush, CodeBlockOf(code_buffer)) ]_vars

\* the nesting depth of item li below the top-level list top
ItemDepth(d, li, top) ==
  Cardinality({a \in Ancestors(d, li) :
                 d[a].tag \in {"ul", "ol"} /\ a \in Subtree(d, top)}) - 1

\* the items of top with non-empty text, in document order
TextItems(d, gone, top) ==
  InOrder({k \in Subtree(d, top) \ gone :
             d[k].tag = "li" /\ ListItemText(d, gone, k) # <<>>}, Len(d))

\* the list paragraphs a slide holds for the items of top
ItemParas(d, slide, top) ==
  SelectSeq(slide.paras,
            LAMBDA q : q.kind = "list" /\ q.src \in Subtree(d, top))

\* paras are the items, one each, in order, item at depth n on level
\* min(n, 4)
LevelsOfItems(d, paras, items, top) ==
  /\ Len(paras) = Len(items)
  /\ \A i \in 1..Len(items) :
       /\ paras[i].src = items[i]
       /\ paras[i].level = (IF ItemDepth(d, items[i], top) < 4
                            THEN ItemDepth(d, items[i], top) ELSE 4)

\* C6: once a top-level list is handled, every item of it with non-empty
\* text is one list paragraph of the slide, on level min(d, 4) for nesting
\* depth d, in document order, and no level exceeds 4.
C6_ItemsOnClampedLevels ==
  (pc = "body" /\ lastOp \in {"list", "list_error"})
    => /\ current_slide # 0
       /\ LevelsOfItems(doc, ItemParas(doc, slides[current_slide], elements[idx - 1]),
                        TextItems(doc, dead, elements[idx - 1]), elements[idx - 1])
       /\ \A q \in 1..Len(slides[current_slide].paras) :
            slides[current_slide].paras[q].level <= 4

\* p reads "slide", a number and a colon, with optional whitespace between
\* and after them, whatever the case of the letters
IsSlidePrefix(p) ==
  /\ LitAt(p, 1, LitSlide)
  /\ \E k \in 6..Len(p) :
       /\ p[k] = ":"
       /\ \A m \in (k+1)..Len(p) : IsSpace(p[m])
       /\ \A m \in 6..(k-1) : IsSpace(p[m]) \/ IsDigit(p[m])
       /\ \E m \in 6..(k-1) : IsDigit(p[m])
       /\ \A a, b \in 6..(k-1) :
            (a < b /\ IsDigit(p[a]) /\ IsDigit(p[b]))
              => \A m \in a..b : IsDigit(p[m])
       /\ \A a, b \in 6..(k-1) :
            (a < b /\ IsDigit(p[a]) /\ IsSpace(p[b]))
              => \A m \in b..(k-1) : IsSpace(p[m])

\* text t starts with a "Slide <number>:" prefix
StartsWithSlidePrefix(t) == \E n \in 1..Len(t) : IsSlidePrefix(Take(t, n))

\* text t2 is text t1 with a "Slide <number>:" prefix in front
PrefixedBy(t2, t1) ==
  \E n \in 1..Len(t2) : IsSlidePrefix(Take(t2, n)) /\ Drop(t2, n + 1) = t1

\* rest cut to its first 100 characters, "..." added when it was longer
CutTo100(rest) ==
  IF Len(rest) > 100 THEN SubSeq(rest, 1, 100) \o <<".", ".", ".">> ELSE rest

\* title is text t without one leading prefix (the whole of it, with the
\* whitespace after the colon), cut to 100 characters
IsTitleOf(title, t) ==
  IF StartsWithSlidePrefix(t)
  THEN \E n \in 1..Len(t) :
         /\ IsSlidePrefix(Take(t, n))
         /\ (n = Len(t) \/ ~IsSpace(t[n + 1]))
         /\ title = CutTo100(Drop(t, n + 1))
  ELSE title = CutTo100(t)

\* the slides a heading opened
HeadingSlides == {n \in 1..Len(slides) : slides[n].src # 0}

\* the text of the heading that opened slide n
HeadingText(n) == GetText(doc, dead, slides[n].src)

\* every slide a heading opened has the title derived from the heading
TitlesDerived ==
  \A n \in HeadingSlides : IsTitleOf(slides[n].title, HeadingText(n))

\* C7 as stated: the title of a slide opened by a heading is the heading
\* text without one leading "Slide <number>:" prefix, cut to 100 characters
\* with "..." added exactly when it was longer; two headings whose texts
\* differ only by such a prefix get identical titles.
C7_PrefixNeverMatters ==
  /\ TitlesDerived
  /\ \A m, n \in HeadingSlides :
       PrefixedBy(HeadingText(n), HeadingText(m))
         => slides[n].title = slides[m].title

\* C7 amended: the same, the two headings getting identical titles when
\* the text without the prefix does not start with such a prefix itself.
C7_OnePrefixStripped ==
  /\ TitlesDerived
  /\ \A m, n \in HeadingSlides :
       (/\ PrefixedBy(HeadingText(n), HeadingText(m))
        /\ ~StartsWithSlidePrefix(HeadingText(m)))
         => slides[n].title = slides[m].title

\* two slides opened by headings that differ by a prefix, the text longer
\* than 100 characters
C7_Witness ==
  \E m, n \in HeadingSlides :
    /\ PrefixedBy(HeadingText(n), HeadingText(m))
    /\ Len(HeadingText(m)) > 100
    /\ Len(slides[m].title) = 103

\* node k opened no slide and gave no paragraph and no table of the deck
NotInDeck(k) ==
  \A n \in 1..Len(slides) :
    /\ slides[n].src # k
    /\ \A q \in 1..Len(slides[n].paras) : slides[n].paras[q].src # k
    /\ \A t \in 1..Len(slides[n].tables) : slides[n].tables[t].src # k

\* C8: a node that title extraction consumed (as heading, subheading or
\* leading note) is never handled by the main pass: it is not among the
\* nodes the pass walks, is never marked processed by it (as a note or
\* otherwise), and opens no slide and gives no element of the deck.
C8_ConsumedNeverHandled ==
  (pc = "body" \/ Ended)
    => \A k \in dead :
         /\ k \notin processed
         /\ \A i \in 1..Len(elements) : elements[i] # k
         /\ NotInDeck(k)

\* title extraction consumed a heading and a leading note, and the main
\* pass has handled the other nodes
C8_Witness ==
  /\ pc = "save"
  /\ heading # <<>> /\ speaker_notes # <<>>
  /\ Cardinality(dead) >= 2
  /\ processed # {}

\* C9: the call returns failure only when _save_presentation fails; an
\* error raised while the title is extracted or the nodes are segmented is
\* swallowed, the artifact is saved and the call returns success.
C9_FailureOnlyFromSave ==
  pc = "done"
    => /\ (result = "false" <=> lastOp = "save_error")
       /\ (result = "true" => pptx_saved)

\* C10 as stated: the blocks of the sidecar file are in non-decreasing
\* slide-number order, at most one block per slide number, none with empty
\* note text.
C10_OneBlockPerSlide ==
  lastOp = "notes_file"
    => /\ \A i \in 1..(Len(sidecar) - 1) : sidecar[i][1] <= sidecar[i + 1][1]
       /\ \A i, j \in 1..Len(sidecar) : i # j => sidecar[i][1] # sidecar[j][1]
       /\ \A i \in 1..Len(sidecar) : sidecar[i][2] # <<>>

\* C10 amended: the blocks are in non-decreasing slide-number order except
\* where the title note of a later conversion of the generator starts again
\* at slide 1, there is at most one block per (slide number, note text)
\* pair, and no block has empty note text.
C10_OneBlockPerNote ==
  lastOp = "notes_file"
    => /\ \A i \in 1..(Len(sidecar) - 1) :
            sidecar[i][1] <= sidecar[i + 1][1] \/ sidecar[i + 1][1] = 1
       /\ \A i, j \in 1..Len(sidecar) : i # j => sidecar[i] # sidecar[j]
       /\ \A i \in 1..Len(sidecar) : Strip(sidecar[i][2]) # <<>>

\* the file is written for a slide that received two different notes
C10_Witness ==
  /\ lastOp = "notes_file"
  /\ \E i, j \in 1..Len(sidecar) :
       i # j /\ sidecar[i][1] = sidecar[j][1] /\ sidecar[i][2] # sidecar[j][2]

\* the notes list holds nothing but notes of the slides of this deck
NotesOfThisDeck ==
  \A i \in 1..Len(speaker_notes_txt) :
    /\ speaker_notes_txt[i][1] \in 1..Len(slides)
    /\ slides[speaker_notes_txt[i][1]].notes # <<>>

\* C11: what a conversion leaves does not depend on the conversions the
\* generator ran before: as for a conversion by a new generator, the notes
\* list holds the notes of the slides of this conversion only, each under
\* the position of its slide.
C11_RunIndependent == Ended => NotesOfThisDeck

\* a conversion by a new generator leaves the notes of its own slides
C11_AloneHolds == (Ended /\ runs = 1) => NotesOfThisDeck

\* C12: when the pass returns with code lines still buffered, they have
\* been emitted as one CodeBlock, joined by newlines, on a slide; no
\* buffered line is lost.
C12_BufferFlushedAtEnd ==
  (pc = "save" /\ code_buffer # <<>>)
    => \E n \in 1..Len(slides) : \E q \in 1..Len(slides[n].paras) :
         slides[n].paras[q] = CodeBlockOf(code_buffer)

\* C13: an error raised while one node is handled is caught and the pass
\* goes on with the next node: every step taken at a node leaves the pass
\* running, one node further.
C13_ErrorSkipsOneNode ==
  [][ InBody => (pc' = "body" /\ idx' = idx + 1 /\ result' = "none") ]_vars

\* the title loop holds heading, subheading and leading note
TitleComplete ==
  pc = "title" /\ heading # <<>> /\ subheading # <<>> /\ speaker_notes # <<>>

\* C14: once heading, subheading and a leading note are captured, title
\* extraction consumes no further node and the three no longer change; a
\* second note node that follows is left for the main pass.
C14_ScanStopsWhenComplete ==
  [][ TitleComplete
        => /\ heading' = heading
           /\ subheading' = subheading
           /\ speaker_notes' = speaker_notes
           /\ dead' = dead ]_vars

\* entry e of the notes list names position pos, where deck has the slide
\* whose notes are e's text
EntryMatches(e, deck, pos) ==
  /\ e[1] = pos
  /\ pos \in 1..Len(deck)
  /\ deck[pos].notes = e[2]

\* C15: every entry (n, text) appended to the notes list has for n the
\* 1-based position of the slide whose notes were set to text: 1 for the
\* title slide, the position of the open slide for a note of the main pass.
C15_IndexIsSlidePosition ==
  [][ speaker_notes_txt' # speaker_notes_txt
        => /\ Len(speaker_notes_txt') = Len(speaker_notes_txt) + 1
           /\ EntryMatches(speaker_notes_txt'[Len(speaker_notes_txt')], slides',
                           IF lastOp' = "title_slide" THEN 1 ELSE current_slide)
    ]_vars

\* the note part of the node the pass stands at
NotePart == Strip(SplitNotes(CurText).notes)

\* list is old, or old with one entry for note added
SameOrOneNote(list, old, note) ==
  \/ list = old
  \/ /\ Len(list) = Len(old) + 1
     /\ SubSeq(list, 1, Len(old)) = old
     /\ list[Len(list)][2] = note

\* C16: at a node whose text holds the notes marker the only change is
\* the note attached to the open slide and recorded; no slide is opened,
\* no element emitted, the code buffer stays as it is, and with no slide
\* open the note is recorded nowhere.
C16_InterceptionOnlyAttaches ==
  [][ (InBody /\ IsNoteNode)
        => /\ Len(slides') = Len(slides)
           /\ \A n \in 1..Len(slides) :
                \/ slides'[n] = slides[n]
                \/ n = current_slide
                   /\ slides'[n] = [slides[n] EXCEPT !.notes = NotePart]
           /\ SameOrOneNote(speaker_notes_txt', speaker_notes_txt, NotePart)
           /\ code_buffer' = code_buffer
           /\ current_slide' = current_slide
           /\ content_box' = content_box
           /\ slide_count' = slide_count
           /\ pc' = "body" /\ idx' = idx + 1
           /\ current_slide = 0
                => /\ speaker_notes_txt' = speaker_notes_txt
                   /\ notes_seen' = notes_seen ]_vars

\* a note was attached to the open slide while code lines were buffered
C16_Witness ==
  /\ lastOp = "note"
  /\ code_buffer # <<>>
  /\ slides[current_slide].notes # <<>>

\* the CodeBlock of preformatted or code node k
CodeBlockOfNode(k) ==
  [kind |-> "code", text |-> Take(GetText(doc, dead, k), MaxSlideContentLength),
   level |-> 0, src |-> k]

\* C17: a preformatted node, or a code node outside a preformatted node,
\* with non-blank text appends exactly one CodeBlock, its text cut to
\* max_slide_content_length, to the open slide (one titled "Code" is
\* opened when none is open).
C17_OneBlockPerPre ==
  (/\ pc = "body"
   /\ lastOp \in {"code", "code_error"}
   /\ GetText(doc, dead, elements[idx - 1]) # <<>>)
    => /\ current_slide # 0
       /\ Cardinality({q \in 1..Len(slides[current_slide].paras) :
            slides[current_slide].paras[q] = CodeBlockOfNode(elements[idx - 1])})
          = 1

\* C18: a top-level list reached with no slide open gets exactly one new
\* slide, titled "List", and its items are on that slide as they would be
\* after a heading: one list paragraph each, in order, on level min(d, 4).
C18_ListOpensItsSlide ==
  [][ (AtDispatch /\ IsTopList /\ current_slide = 0)
        => /\ Len(slides') = Len(slides) + 1
           /\ current_slide' = Len(slides')
           /\ slides'[Len(slides')].title = TxtList
           /\ LevelsOfItems(doc, ItemParas(doc, slides'[Len(slides')], Cur),
                            TextItems(doc, dead, Cur), Cur) ]_vars

\* C19: when the pass reaches the nested-duplicate tests or the dispatch
\* for a node, the code buffer is empty; a heading opens its slide only
\* after the lines buffered before it went, as one CodeBlock, to the slide
\* that was open before.
C19_FlushedBeforeDispatch ==
  [][ (AfterFlush /\ pc' = "body")
        => /\ code_buffer' = <<>>
           /\ (CurTag \in HeadingTags /\ code_buffer # <<>>)
                => /\ current_slide # 0
                   /\ current_slide' = Len(slides) + 1
                   /\ slides'[current_slide].paras
                        = Append(slides[current_slide].paras,
                                 CodeBlockOf(code_buffer))
                   /\ slides'[current_slide'].paras = <<EmptyPara>> ]_vars

\* a heading has opened its slide and the slide before it got the code
\* lines buffered before the heading
C19_Witness ==
  /\ lastOp = "heading"
  /\ current_slide > 2
  /\ code_buffer = <<>>
  /\ \E q \in 1..Len(slides[current_slide - 1].paras) :
       slides[current_slide - 1].paras[q].kind = "code"

\* node k is handled as a speaker-note node
IsNoteAt(k) == HasNotesMarker(GetText(doc, dead, k))

\* node k is handled as a code-line container
IsCodeLineAt(k) ==
  doc[k].tag = "div" /\ "cm-line" \in doc[k].cls /\ ~IsNoteAt(k)

\* the non-empty texts of the code-line containers that end the first i
\* nodes of the pass: the longest run of code-line containers (and, with
\* skipNotes, of speaker-note nodes between them)
RECURSIVE RunTexts(_, _)
RunTexts(i, skipNotes) ==
  IF i = 0 THEN <<>>
  ELSE IF IsCodeLineAt(elements[i])
  THEN RunTexts(i - 1, skipNotes)
       \o (IF GetText(doc, dead, elements[i]) = <<>> THEN <<>>
           ELSE <<GetText(doc, dead, elements[i])>>)
  ELSE IF skipNotes /\ IsNoteAt(elements[i]) THEN RunTexts(i - 1, skipNotes)
  ELSE <<>>

\* the text of the CodeBlock the step flushed to the open slide
FlushedText == slides'[current_slide].paras[Len(slides[current_slide].paras) + 1].text

\* C20 as stated: the lines joined into a flushed CodeBlock are the texts
\* of code-line containers that are consecutive in the node sequence; a
\* node between two of them that is no code-line container, a speaker-note
\* node included, keeps them in different blocks.
C20_OnlyConsecutiveLines ==
  [][ (AfterFlush /\ code_buffer # <<>> /\ pc' = "body")
        => FlushedText = Join(RunTexts(idx - 1, FALSE), <<"\n">>) ]_vars

\* C20 amended: the same, except that speaker-note nodes between code-line
\* containers do not end the run: the lines on both sides of them are
\* joined into one CodeBlock.
C20_NotesDoNotSplit ==
  [][ (AfterFlush /\ code_buffer # <<>> /\ pc' = "body")
        => FlushedText = Join(RunTexts(idx - 1, TRUE), <<"\n">>) ]_vars

\* the lines before and after a note node were flushed as one CodeBlock to
\* the slide that got the note
C20_Witness ==
  /\ lastOp = "table"
  /\ slides[current_slide].notes # <<>>
  /\ \E q \in 1..Len(slides[current_slide].paras) :
       slides[current_slide].paras[q] = CodeBlockOf(<< <<"a">>, <<"b">> >>)

\* a body slide: one on the content layout
HasBodySlide(deck) == \E k \in 1..Len(deck) : deck[k].layout = "content"

\* the step that leaves _save_presentation, with the file written or not
SaveStep == pc = "save" /\ pc' # "save"

\* the step that leaves _save_speaker_notes_textfile
SidecarStep == pc = "notes" /\ pc' # "notes"

\* C21: the outputs of one conversion come in order. A step after which
\* the deck has a body slide starts from a deck whose first slide is the
\* title slide; the presentation is saved only once the main pass has gone
\* through all its nodes, and saving adds no slide; the sidecar file is
\* written only in a call whose presentation file was saved; when saving
\* fails the call ends with False and no sidecar file; when writing the
\* sidecar file fails the call still ends with True.
C21_OutputsInOrder ==
  [][ /\ HasBodySlide(slides')
           => (slides # <<>> /\ slides[1].layout = "title"
               /\ slides'[1] = slides[1])
      /\ SaveStep
           => (lastOp = "finish" /\ idx > Len(elements) /\ slides' = slides
               /\ (pptx_saved' \/ (pc' = "done" /\ result' = "false"
                                   /\ sidecar' = <<>>)))
      /\ SidecarStep
           => (pptx_saved /\ pptx_saved' /\ pc' = "done" /\ result' = "true")
      /\ (sidecar' # sidecar /\ pc' # "idle") => (SidecarStep /\ pptx_saved)
    ]_vars

\* a conversion with body slides whose presentation was saved and whose
\* sidecar file could not be written has returned True
C21_Witness ==
  /\ lastOp = "notes_file_error"
  /\ HasBodySlide(slides)
  /\ pptx_saved
  /\ sidecar = <<>>
  /\ result = "true"

\* a name that is safe under the limit maxlen
IsSafeName(name, maxlen) ==
  /\ name # <<>>
  /\ \A i \in 1..Len(name) :
       /\ name[i] < 128
       /\ name[i] \notin Dangerous
       /\ name[i] \notin Whitespace
  /\ (Len(name) <= maxlen - ExtensionRoom \/ name = CanvasExport)

\* C22: for every file name and every max_length above 5, what sanitize
\* returns is not empty, has only characters with a code below 128, none
\* of < > : " / \ | ? * and no whitespace, and is at most max_length - 5
\* characters long unless it is 'canvas_export'.
C22_SanitizedIsSafe ==
  (sanitized # <<>> /\ max_length > ExtensionRoom)
    => IsSafeName(sanitized[1], max_length)

====
